---- MODULE Spec2Model ----
(***************************************************************************)
(* Kanjiten backend (src/Backend/server.js): the learning-progress and     *)
(* streak endpoints, modelled as a state machine over the Supabase tables  *)
(* user_streaks and user_kanji_progress.                                   *)
(*                                                                         *)
(* A route handler runs atomically between two awaits (Node runs one       *)
(* callback at a time); every awaited store call is a step of its own, so  *)
(* concurrent requests interleave at the store calls.                      *)
(***************************************************************************)
EXTENDS Integers, Sequences, FiniteSets, TLC

\* ------------------------------------------------------------------ bounds
\* Calendar days the clock runs through (day 0 .. MaxDay, UTC).
MaxDay == 2
\* Requests started in one behaviour.
MaxRequests == 2
\* Progress requests (update, bulk-update) handled in one behaviour.
MaxProgressRequests == 1
\* Elements of kanjiProgressData in one bulk update.
MaxBatch == 2
\* Settings requests (GET and PUT /api/settings, PUT /api/user/language) in a run.
MaxSettingsRequests == 2
\* Custom-word requests (POST and DELETE /api/custom-words) in one behaviour.
MaxWordRequests == 2
\* Requests that reach authenticateUser in one behaviour.
MaxApiRequests == 2

\* ------------------------------------------------------------- environment
\* req.user.id values the identity check can return.
Users == {"u1", "u2"}
\* Request slots: as many requests can be in flight at once.
Procs == {1, 2}

\* Hours of the UTC day at which the clock is sampled: the first and the
\* last.  (At the hours between, a step back of 23, 24 or 25 hours lands on
\* the day before, as a step of 24 does at these two.)
SampleHours == {0, 23}
\* The instants (hours since day 0, 00:00 UTC) the clock can show.
ClockValues == {d * 24 + h : d \in 0..MaxDay, h \in SampleHours}

\* new Date().toISOString().split('T')[0]: the UTC calendar day of instant t.
\* Days are numbered; two ISO date strings are equal iff the days are.
ISODate(t) == t \div 24

\* Length in hours of the local day that setDate(getDate() - 1) steps back
\* over: 24 in a zone without daylight saving (UTC included), 23 or 25 when
\* the host zone changed its offset within that local day.
LocalDayHours == {23, 24, 25}

\* yesterday = new Date(); yesterday.setDate(yesterday.getDate() - 1);
\* yesterday.toISOString().split('T')[0]: the clock is read again (t2), moved
\* back one LOCAL day (back hours), and formatted as a UTC date.
YesterdayStr(t2, back) == ISODate(t2 - back)

\* ------------------------------------------------------------ user_streaks
\* last_review_date of a row that does not exist (null).
NoDate == -1
\* A user_streaks row; present = FALSE is "no row for this user_id".
NoRow == [present |-> FALSE, daily_streak |-> 0, last_review_date |-> NoDate]
StreakRow(n, d) == [present |-> TRUE, daily_streak |-> n, last_review_date |-> d]
\* Rows the table can hold before the first request: none, or one the
\* handler wrote earlier (a streak of at least 1 dated some day).
InitStreaks == {3}
InitRows == {NoRow} \cup {StreakRow(n, d) : n \in InitStreaks, d \in 0..MaxDay}

\* --------------------------------------------------------------- responses
\* res.status(..).json(..): success is "true", "false" or "absent" (the key
\* is not in the body); value is the body's number (streak, or updated), -1
\* if it has none.
Response(status, success, value, error) ==
    [status |-> status, success |-> success, value |-> value, error |-> error]
NoResponse == Response(0, "absent", -1, "")

\* ------------------------------------------------------- JavaScript values
\* A JSON/JavaScript value as the handlers see it: its typeof and a number.
\* A string is its index in StringTable; isotime is the string that
\* toISOString() gives for an instant; NaN is the number that is not one.
Undefined == [t |-> "undefined", v |-> 0]
Null == [t |-> "null", v |-> 0]
NaN == [t |-> "NaN", v |-> 0]
Bool(b) == [t |-> "boolean", v |-> IF b THEN 1 ELSE 0]
Num(n) == [t |-> "number", v |-> n]
ISOTime(c) == [t |-> "isotime", v |-> c]
\* The strings a request or a row can carry, as sequences of characters (a
\* word that holds no digit is written as one character).
StringTable ==
    << <<>>, <<"1">>, <<"2">>, <<"1", "x">>, <<"x">>, <<"m">>,
       <<"alice">>, <<"bob">>, <<"User">>, <<"Al">>, <<"all">>, <<"N5">>,
       <<"meaning-first">>, <<"reading-first">>, <<"en">>, <<"ja">>, <<"fr">> >>
Str(cs) == [t |-> "string", v |-> CHOOSE i \in 1..Len(StringTable) : StringTable[i] = cs]
Chars(x) == StringTable[x.v]

\* x || d: d replaces every falsy x (undefined, null, false, 0, NaN, "").
Truthy(x) ==
    CASE x.t = "boolean" -> x.v = 1
      [] x.t = "number"  -> x.v # 0
      [] x.t = "string"  -> Chars(x) # <<>>
      [] x.t = "isotime" -> TRUE
      [] OTHER           -> FALSE
Or(x, d) == IF Truthy(x) THEN x ELSE d

\* parseInt: the integer written by the longest prefix of decimal digits, NaN
\* if there is none.  A number is first written out, so an integer parses to
\* itself; undefined, null and booleans write out as words and give NaN.
DigitChars == <<"0", "1", "2", "3", "4", "5", "6", "7", "8", "9">>
IsDigit(c) == \E i \in 1..Len(DigitChars) : DigitChars[i] = c
DigitValue(c) == (CHOOSE i \in 1..Len(DigitChars) : DigitChars[i] = c) - 1
RECURSIVE DigitPrefix(_)
DigitPrefix(cs) ==
    IF cs = <<>> \/ ~IsDigit(Head(cs)) THEN <<>>
    ELSE <<Head(cs)>> \o DigitPrefix(Tail(cs))
RECURSIVE DecimalValue(_)
DecimalValue(ds) ==
    IF ds = <<>> THEN 0
    ELSE 10 * DecimalValue(SubSeq(ds, 1, Len(ds) - 1)) + DigitValue(ds[Len(ds)])
ParseInt(x) ==
    CASE x.t = "number" -> x
      [] x.t = "string" ->
           IF DigitPrefix(Chars(x)) = <<>> THEN NaN
           ELSE Num(DecimalValue(DigitPrefix(Chars(x))))
      [] OTHER -> NaN

\* ----------------------------------------------------- user_kanji_progress
\* kanji_id values of the rows the table can hold.
Items == {1, 2}
\* The columns the handlers write.
Columns ==
    {"learned", "in_review", "srs_interval", "ease_factor", "consecutive_correct",
     "total_reviews", "correct_reviews", "last_review", "next_review", "mnemonic",
     "updated_at"}
\* In a record sent to the store: the column is not a key of the object.
Unset == [t |-> "unset", v |-> 0]
\* In a row: the column holds what the table gives a column the insert left
\* out (its default, which the handlers do not set).
ColumnDefault == [t |-> "default", v |-> 0]
\* No row for a (user_id, kanji_id).  rows is the number of rows the table
\* holds for the key.
NoProgress == [present |-> FALSE, rows |-> 0, cols |-> [c \in Columns |-> Null]]

\* ease_factor is held in tenths: 25 is 2.5 (lines 615 and 828).
EaseDefaultTwo == 2 * 10
EaseDefault == 25

\* The integer a value becomes in the integer column kanji_id: a number is
\* itself, a string of digits is the number it writes; anything else (NaN is
\* sent as null, undefined is left out, "1x" is no integer) is not one.
IsKey(x) ==
    \/ x.t = "number"
    \/ x.t = "string" /\ Chars(x) # <<>> /\ DigitPrefix(Chars(x)) = Chars(x)
KeyOf(x) == IF x.t = "number" THEN x.v ELSE DecimalValue(Chars(x))

\* supabase.from('user_kanji_progress').upsert(rows, { onConflict:
\* 'user_id,kanji_id' }): the rows go to the store in ONE statement, INSERT ..
\* ON CONFLICT (user_id, kanji_id) DO UPDATE, which the store runs as a whole
\* or not at all.  It fails when the store is failing (ok = FALSE), when a
\* kanji_id is no integer, and when two of its rows have the same key ("ON
\* CONFLICT DO UPDATE command cannot affect row a second time").  Otherwise
\* each row replaces the columns it names and leaves the others as they are:
\* where the key has a row that row is updated (ON CONFLICT .. DO UPDATE),
\* where it has none one is inserted.
RowKeys(rows) == {<<rows[i].user_id, KeyOf(rows[i].kanji_id)>> : i \in 1..Len(rows)}
Acceptable(rows) ==
    /\ \A i \in 1..Len(rows) : IsKey(rows[i].kanji_id)
    /\ \A i, j \in 1..Len(rows) :
         (i # j /\ rows[i].user_id = rows[j].user_id)
         => KeyOf(rows[i].kanji_id) # KeyOf(rows[j].kanji_id)
MergeRowInsert(old, new) ==
    [present |-> TRUE,
     rows |-> old.rows + 1,
     cols |-> [c \in Columns |->
                 IF new.cols[c] # Unset THEN new.cols[c]
                 ELSE IF old.present THEN old.cols[c] ELSE ColumnDefault]]
MergeRow(old, new) ==
    [present |-> TRUE,
     rows |-> IF old.present THEN old.rows ELSE 1,
     cols |-> [c \in Columns |->
                 IF new.cols[c] # Unset THEN new.cols[c]
                 ELSE IF old.present THEN old.cols[c] ELSE ColumnDefault]]
ApplyRowsAnyUser(table, rows) ==
    [k \in DOMAIN table |->
        IF \E i \in 1..Len(rows) : KeyOf(rows[i].kanji_id) = k[2]
        THEN MergeRow(table[k],
                      rows[CHOOSE i \in 1..Len(rows) : KeyOf(rows[i].kanji_id) = k[2]])
        ELSE table[k]]
ApplyRows(table, rows) ==
    [k \in DOMAIN table |->
        IF \E i \in 1..Len(rows) : <<rows[i].user_id, KeyOf(rows[i].kanji_id)>> = k
        THEN MergeRow(table[k],
                      rows[CHOOSE i \in 1..Len(rows) :
                               <<rows[i].user_id, KeyOf(rows[i].kanji_id)>> = k])
        ELSE table[k]]
RECURSIVE ApplyUntilError(_, _)
ApplyUntilError(table, rows) ==
    IF rows = <<>> THEN [error |-> FALSE, table |-> table]
    ELSE IF ~IsKey(Head(rows).kanji_id) THEN [error |-> TRUE, table |-> table]
    ELSE ApplyUntilError(ApplyRows(table, <<Head(rows)>>), Tail(rows))
UpsertRowByRow(table, rows, ok) ==
    IF ok THEN ApplyUntilError(table, rows) ELSE [error |-> TRUE, table |-> table]
Upsert(table, rows, ok) ==
    IF ok /\ Acceptable(rows)
    THEN [error |-> FALSE, table |-> ApplyRows(table, rows)]
    ELSE [error |-> TRUE, table |-> table]

\* ------------------------------------------------ POST /api/progress/update
\* Lines 820-835: progressData, built from the request body.
UpdateRecord(user, body, now) ==
    [user_id |-> user,
     kanji_id |-> body.kanji_id,
     cols |-> [c \in Columns |->
        CASE c = "learned"             -> Or(body.learned, Bool(FALSE))
          [] c = "in_review"           -> Or(body.in_review, Bool(FALSE))
          [] c = "srs_interval"        -> Or(body.srs_interval, Num(1))
          [] c = "ease_factor"         -> Or(body.ease_factor, Num(EaseDefault))
          [] c = "consecutive_correct" -> Or(body.consecutive_correct, Num(0))
          [] c = "total_reviews"       -> Or(body.total_reviews, Num(0))
          [] c = "correct_reviews"     -> Or(body.correct_reviews, Num(0))
          [] c = "last_review"         -> ISOTime(now)
          [] c = "next_review"         -> Or(body.next_review, Null)
          [] c = "mnemonic"            -> Or(body.mnemonic, Null)
          [] OTHER                     -> Unset]]

\* ------------------------------------------- POST /api/progress/bulk-update
\* An element of kanjiProgressData: the pair [kanjiId, progressData]
\* ("pair"), or something the map callback cannot take apart: null ("null":
\* not iterable) or [kanjiId] alone ("nodata": progressData is undefined and
\* reading .learned of it throws).
Throws(entry) == entry.shape # "pair"
\* Lines 612-622: the value of column c in an element of progressRecords.
BulkField(progressData, c, now) ==
    CASE c = "learned"             -> Or(progressData.learned, Bool(FALSE))
      [] c = "in_review"           -> Or(progressData.inReview, Bool(FALSE))
      [] c = "srs_interval"        -> Or(progressData.interval, Num(1))
      [] c = "ease_factor"         -> Or(progressData.ease, Num(EaseDefault))
      [] c = "consecutive_correct" -> Or(progressData.consecutiveCorrect, Num(0))
      [] c = "total_reviews"       -> Or(progressData.totalReviews, Num(0))
      [] c = "correct_reviews"     -> Or(progressData.correctReviews, Num(0))
      [] c = "last_review"         -> Or(progressData.lastReview, Null)
      [] c = "next_review"         -> Or(progressData.nextReview, Null)
      [] c = "mnemonic"            -> Or(progressData.mnemonic, Null)
      [] OTHER                     -> ISOTime(now)
\* Lines 609-623: one element of progressRecords.
BulkRecordIntervalZero(user, entry, now) ==
    [user_id |-> user,
     kanji_id |-> ParseInt(entry.kanjiId),
     cols |-> [c \in Columns |->
                 IF c = "srs_interval" THEN Or(entry.progressData.interval, Num(0))
                 ELSE BulkField(entry.progressData, c, now)]]
BulkRecord(user, entry, now) ==
    [user_id |-> user,
     kanji_id |-> ParseInt(entry.kanjiId),
     cols |-> [c \in Columns |-> BulkField(entry.progressData, c, now)]]
\* kanjiProgressData.map(..): progressRecords.
BulkRecords(user, items, now) ==
    [i \in 1..Len(items) |-> BulkRecord(user, items[i], now)]

\* ------------------------------------------------------------------ inputs
\* progressData with no key at all.
EmptyData ==
    [learned |-> Undefined, inReview |-> Undefined, interval |-> Undefined,
     ease |-> Undefined, consecutiveCorrect |-> Undefined, totalReviews |-> Undefined,
     correctReviews |-> Undefined, lastReview |-> Undefined, nextReview |-> Undefined,
     mnemonic |-> Undefined]
\* progressData with every key set to a truthy value.
FullData ==
    [learned |-> Bool(TRUE), inReview |-> Bool(TRUE), interval |-> Num(3),
     ease |-> Num(13), consecutiveCorrect |-> Num(2), totalReviews |-> Num(2),
     correctReviews |-> Num(1), lastReview |-> ISOTime(0), nextReview |-> ISOTime(0),
     mnemonic |-> Str(<<"m">>)]
\* The values a client can send for one key: truthy ones, and the falsy ones
\* of its type (false, 0, null, "").
FieldValues ==
    {<<"learned", Bool(TRUE)>>, <<"learned", Bool(FALSE)>>, <<"inReview", Bool(TRUE)>>,
     <<"interval", Num(3)>>, <<"interval", Num(0)>>, <<"interval", Num(-1)>>,
     <<"ease", Num(13)>>, <<"ease", Num(0)>>, <<"ease", Null>>,
     <<"consecutiveCorrect", Num(2)>>, <<"totalReviews", Num(2)>>,
     <<"correctReviews", Num(3)>>, <<"lastReview", ISOTime(0)>>,
     <<"nextReview", ISOTime(0)>>, <<"mnemonic", Str(<<"m">>)>>,
     <<"mnemonic", Str(<<>>)>>}
\* The progressData objects of the requests: nothing set, one key set, all set.
ProgressDatas ==
    {EmptyData, FullData} \cup {[EmptyData EXCEPT ![fv[1]] = fv[2]] : fv \in FieldValues}
\* The kanjiId values of the requests: a number and a string that starts
\* with one (each sent with every progressData), a string that is a number
\* and a string that holds none (sent with the empty progressData).
RawIds == {Num(1), Str(<<"1", "x">>)}
OtherIds == {Str(<<"2">>), Str(<<"x">>)}

Pair(kanjiId, progressData) ==
    [shape |-> "pair", kanjiId |-> kanjiId, progressData |-> progressData]
NullEntry == [shape |-> "null", kanjiId |-> Undefined, progressData |-> EmptyData]
NoDataEntry(kanjiId) ==
    [shape |-> "nodata", kanjiId |-> kanjiId, progressData |-> EmptyData]
\* The elements a batch of one is drawn from, and the few that longer batches
\* are drawn from (item 1 with learned true and with learned false, item 2,
\* an id that is no number, and an element the map callback throws on).
Entries ==
    {Pair(k, d) : k \in RawIds, d \in ProgressDatas}
        \cup {Pair(k, EmptyData) : k \in OtherIds}
        \cup {NullEntry, NoDataEntry(Num(1))}
FewEntries ==
    {Pair(Num(1), [EmptyData EXCEPT !.learned = Bool(TRUE)]),
     Pair(Num(1), [EmptyData EXCEPT !.learned = Bool(FALSE)]),
     Pair(Str(<<"2">>), [EmptyData EXCEPT !.interval = Num(3)]),
     Pair(Str(<<"x">>), EmptyData),
     NoDataEntry(Num(2))}
\* req.body.kanjiProgressData: an array, or something that is not one.
Array(items) == [kind |-> "array", items |-> items]
\* Line 602: kanjiProgressData && Array.isArray(kanjiProgressData).
IsBatchIfTruthy(kpd) == kpd.kind \notin {"undefined", "null"}
IsBatch(kpd) == kpd.kind = "array"
NotArray(kind) == [kind |-> kind, items |-> <<>>]
Batches ==
    {Array(<<>>)} \cup {Array(<<e>>) : e \in Entries}
        \cup UNION {{Array(items) : items \in [1..n -> FewEntries]} : n \in 2..MaxBatch}
KanjiProgressDatas ==
    Batches \cup {NotArray(k) : k \in {"undefined", "null", "object", "string"}}

\* The body of POST /api/progress/update that carries the same id and values
\* as the pair [kanjiId, progressData] (line 820 names the keys).
UpdateBody(kanjiId, progressData) ==
    [kanji_id |-> kanjiId, learned |-> progressData.learned,
     in_review |-> progressData.inReview, srs_interval |-> progressData.interval,
     ease_factor |-> progressData.ease,
     consecutive_correct |-> progressData.consecutiveCorrect,
     total_reviews |-> progressData.totalReviews,
     correct_reviews |-> progressData.correctReviews,
     last_review |-> progressData.lastReview,
     next_review |-> progressData.nextReview, mnemonic |-> progressData.mnemonic]
UpdateBodies ==
    {UpdateBody(k, d) : k \in RawIds, d \in ProgressDatas}
        \cup {UpdateBody(k, EmptyData) : k \in OtherIds \cup {Undefined}}

\* The table before the first request: empty, or holding rows the bulk update
\* wrote at instant 0.
EmptyTable == [k \in Users \X Items |-> NoProgress]
SeededTable ==
    ApplyRows(ApplyRows(EmptyTable,
                        BulkRecords("u1", <<Pair(Num(1), FullData), Pair(Num(2), EmptyData)>>, 0)),
              BulkRecords("u2", <<Pair(Num(1), FullData)>>, 0))
InitTables == {EmptyTable, SeededTable}

\* The history of a progress request.  calls is the number of store calls the
\* handler issued, fault whether the store was failing when it was called.
NoLast ==
    [op |-> "none", user |-> "u1", body |-> UpdateBody(Undefined, EmptyData),
     kpd |-> NotArray("undefined"), res |-> NoResponse, calls |-> 0,
     fault |-> FALSE, progress |-> {}, before |-> EmptyTable]

\* ------------------------------------------------------------ user_settings
\* req.user.username: set at signup (3 to 50 characters) or guest login.
Username(u) == IF u = "u1" THEN Str(<<"alice">>) ELSE Str(<<"bob">>)
\* The columns of user_settings the handlers name.
SettingsColumns ==
    {"profile_name", "max_level", "jlpt_level", "max_interval", "show_progress",
     "show_drawing", "show_study_progress", "default_question_mode", "dark_mode",
     "language", "updated_at"}
\* No row for a user_id; a column no statement has set holds null.
NoSettingsRow == [present |-> FALSE, cols |-> [c \in SettingsColumns |-> Null]]
EmptySettingsTable == [u \in Users |-> NoSettingsRow]
\* upsert(record, { onConflict: 'user_id' }): the columns the record names
\* are set, the other columns of an existing row stay, and the row is one.
MergeSettings(old, new) ==
    [present |-> TRUE,
     cols |-> [c \in SettingsColumns |->
                 IF new[c] # Unset THEN new[c] ELSE old.cols[c]]]
\* A key of the body as a column of the record: JSON.stringify leaves out a
\* key whose value is undefined.
Sent(x) == IF x = Undefined THEN Unset ELSE x

\* Lines 664-675: defaultSettings.
DefaultSettingsNamedUser(user) ==
    [profileName |-> Str(<<"User">>),
     maxLevel |-> Num(10),
     jlptLevel |-> Str(<<"all">>),
     maxInterval |-> Num(180),
     showProgress |-> Bool(TRUE),
     showDrawing |-> Bool(TRUE),
     showStudyProgress |-> Bool(TRUE),
     defaultQuestionMode |-> Str(<<"meaning-first">>),
     darkMode |-> Bool(FALSE),
     language |-> Str(<<"en">>)]
DefaultSettings(user) ==
    [profileName |-> Or(Username(user), Str(<<"User">>)),
     maxLevel |-> Num(10),
     jlptLevel |-> Str(<<"all">>),
     maxInterval |-> Num(180),
     showProgress |-> Bool(TRUE),
     showDrawing |-> Bool(TRUE),
     showStudyProgress |-> Bool(TRUE),
     defaultQuestionMode |-> Str(<<"meaning-first">>),
     darkMode |-> Bool(FALSE),
     language |-> Str(<<"en">>)]
\* x !== null ? x : d
IfNotNullOr(x, d) == Or(x, d)
IfNotNull(x, d) == IF x # Null THEN x ELSE d
\* Lines 677-688: settings, from the row the select returned (data) or, with
\* no row, the defaults.
Settings(data, user) ==
    LET defaultSettings == DefaultSettings(user) IN
    IF data.present
    THEN [profileName |-> Or(data.cols["profile_name"], defaultSettings.profileName),
          maxLevel |-> Or(data.cols["max_level"], defaultSettings.maxLevel),
          jlptLevel |-> Or(data.cols["jlpt_level"], defaultSettings.jlptLevel),
          maxInterval |-> Or(data.cols["max_interval"], defaultSettings.maxInterval),
          showProgress |-> IfNotNull(data.cols["show_progress"], defaultSettings.showProgress),
          showDrawing |-> IfNotNull(data.cols["show_drawing"], defaultSettings.showDrawing),
          showStudyProgress |->
              IfNotNull(data.cols["show_study_progress"], defaultSettings.showStudyProgress),
          defaultQuestionMode |->
              Or(data.cols["default_question_mode"], defaultSettings.defaultQuestionMode),
          darkMode |-> IfNotNull(data.cols["dark_mode"], defaultSettings.darkMode),
          language |-> Or(data.cols["language"], defaultSettings.language)]
    ELSE defaultSettings
\* The keys of settings, and the column each is resolved from.
SettingsKeys ==
    {"profileName", "maxLevel", "jlptLevel", "maxInterval", "showProgress",
     "showDrawing", "showStudyProgress", "defaultQuestionMode", "darkMode", "language"}
ColumnOf(key) ==
    CASE key = "profileName" -> "profile_name"
      [] key = "maxLevel" -> "max_level"
      [] key = "jlptLevel" -> "jlpt_level"
      [] key = "maxInterval" -> "max_interval"
      [] key = "showProgress" -> "show_progress"
      [] key = "showDrawing" -> "show_drawing"
      [] key = "showStudyProgress" -> "show_study_progress"
      [] key = "defaultQuestionMode" -> "default_question_mode"
      [] key = "darkMode" -> "dark_mode"
      [] OTHER -> "language"

\* Lines 702-713: the body of PUT /api/settings, no key set and every key set.
EmptySettingsBody == [key \in SettingsKeys |-> Undefined]
FullSettingsBody ==
    [key \in SettingsKeys |->
        CASE key = "profileName" -> Str(<<"Al">>)
          [] key = "maxLevel" -> Num(5)
          [] key = "jlptLevel" -> Str(<<"N5">>)
          [] key = "maxInterval" -> Num(30)
          [] key = "defaultQuestionMode" -> Str(<<"reading-first">>)
          [] key = "darkMode" -> Bool(TRUE)
          [] key = "language" -> Str(<<"ja">>)
          [] OTHER -> Bool(FALSE)]
\* Values a client can send for one key: falsy ones of the key's type, null,
\* and languages in and out of the list.
SettingsFieldValues ==
    {<<"profileName", Str(<<>>)>>, <<"profileName", Null>>, <<"maxLevel", Num(0)>>,
     <<"jlptLevel", Str(<<>>)>>, <<"maxInterval", Num(0)>>,
     <<"showProgress", Bool(FALSE)>>, <<"showDrawing", Null>>,
     <<"defaultQuestionMode", Str(<<>>)>>, <<"darkMode", Bool(TRUE)>>,
     <<"language", Str(<<"ja">>)>>, <<"language", Str(<<"fr">>)>>,
     <<"language", Str(<<>>)>>}
SettingsBodies ==
    {EmptySettingsBody, FullSettingsBody}
        \cup {[EmptySettingsBody EXCEPT ![fv[1]] = fv[2]] : fv \in SettingsFieldValues}
\* The language values of PUT /api/user/language.
Languages == {Str(<<"en">>), Str(<<"ja">>), Str(<<"fr">>), Str(<<>>), Undefined}
\* Line 716 and 787: ['en', 'ja'].includes(language).
SupportedAny(language) == TRUE
Supported(language) == language \in {Str(<<"en">>), Str(<<"ja">>)}

\* A response of the settings endpoints; settings is EmptySettingsBody and
\* language undefined where the body has no such key.
SettingsResponse(status, success, settings, language, error) ==
    [status |-> status, success |-> success, settings |-> settings,
     language |-> language, error |-> error]
\* The history of a settings request: the row of its user before it, and
\* calls, the number of store writes the handler issued.
NoLastSettings ==
    [op |-> "none", user |-> "u1", body |-> EmptySettingsBody, language |-> Undefined,
     res |-> SettingsResponse(0, "absent", EmptySettingsBody, Undefined, ""),
     calls |-> 0, before |-> NoSettingsRow]

\* ---------------------------------------------------------------- requests
\* One request slot: the handler's position and locals.  seen, readOk,
\* wrote, over, after and start are history fields: the row the table held
\* when the select was served, whether the select was served without error,
\* whether the request's upsert was applied, the row that upsert replaced,
\* the row after the request's last step, and the row when the request began.
IdleReq ==
    [pc |-> "idle", user |-> "u1", today |-> 0, data |-> NoRow, newStreak |-> 0,
     res |-> NoResponse, seen |-> NoRow, readOk |-> FALSE, yesterdayStr |-> 0,
     wrote |-> FALSE, over |-> NoRow, after |-> NoRow, start |-> NoRow]

\* ------------------------------------------------------- user_custom_words
\* Line 927: the words a user may hold for one kanji.
MaxCustomWords == 3
\* A row of user_custom_words; id is given by the store.  The word, its
\* reading and its meaning are carried through unchanged and left out.
WordRow(id, user, kanji) == [id |-> id, user_id |-> user, kanji_id |-> kanji]
\* The table with n words of u1 for kanji 1 and one word of u2 for kanji 1;
\* seq is the last id the store gave.
WordTable(n) ==
    [rows |-> {WordRow(i, "u1", 1) : i \in 1..n} \cup {WordRow(n + 1, "u2", 1)},
     seq  |-> n + 1]
InitWordCounts == {0, MaxCustomWords - 1, MaxCustomWords}
\* req.body.kanjiId of POST /api/custom-words.
WordKanjiIds == {Num(1), Str(<<"1", "x">>), Str(<<"2">>)}
\* req.params.wordId of DELETE /api/custom-words/:wordId.
WordIds == 1..(MaxCustomWords + 1)
\* Line 917-921: the rows the count query matches.
Matching(rows, user, kanji) ==
    {w \in rows : w.user_id = user /\ w.kanji_id = kanji}
\* Line 962-965 without the filter on user_id of line 966.
DeletedAnyOwner(rows, wordId, user) == {w \in rows : w.id = wordId}
\* Line 962-966: the rows delete().eq('id', wordId).eq('user_id', req.user.id)
\* removes.
Deleted(rows, wordId, user) == {w \in rows : w.id = wordId /\ w.user_id = user}
\* One POST /api/custom-words in flight: the handler's position and locals.
\* count is what the count query answered.
IdleWordReq ==
    [pc |-> "idle", user |-> "u1", kanjiId |-> Undefined, count |-> 0,
     res |-> NoResponse]
\* The history of a DELETE /api/custom-words/:wordId.
NoLastWord ==
    [op |-> "none", user |-> "u1", wordId |-> 0, res |-> NoResponse, before |-> {}]

\* --------------------------------------------------------- authenticateUser
\* req.headers.authorization: undefined, or a string made of an optional
\* 'Bearer ' and a token.
NoHeader == [present |-> FALSE, bearer |-> FALSE, token |-> ""]
Header(bearer, token) == [present |-> TRUE, bearer |-> bearer, token |-> token]
\* The sessions the identity service knows, and a token it does not accept.
Tokens == {"t1", "t2", "expired"}
TokenUser(token) ==
    CASE token = "t1" -> "u1"
      [] token = "t2" -> "u2"
      [] OTHER -> "none"
Headers ==
    {NoHeader, Header(TRUE, ""), Header(FALSE, "t1")}
        \cup {Header(TRUE, token) : token \in Tokens}
\* Line 89: authHeader?.replace('Bearer ', '').  The tokens hold no 'Bearer '.
Token(header) == IF header.present THEN header.token ELSE "undefined"
\* Line 91: !token.
NoToken(header) == ~header.present \/ Token(header) = ""
\* Line 101: supabase.auth.getUser(token).  The service answers with the user
\* of the session or an error, fails with an error of its own, or the call
\* throws.
Identities == {"answers", "fails", "throws"}
GetUser(token, identity) ==
    IF identity = "answers" /\ TokenUser(token) # "none"
    THEN [user |-> TokenUser(token), error |-> FALSE]
    ELSE [user |-> "none", error |-> TRUE]
\* Line 103 without the test.
RefusedNever(got) == FALSE
\* Line 103: if (error || !user).
Refused(got) == got.error \/ got.user = "none"
\* What authenticateUser does with a request: next is whether it called
\* next(), user is req.user.id, reads the number of table reads it issued
\* (the profiles row).
Verdict(next, user, res, reads) ==
    [next |-> next, user |-> user, res |-> res, reads |-> reads]
\* Lines 85-143.
AuthenticateUser(header, identity, profileOk) ==
    IF NoToken(header)
    THEN Verdict(FALSE, "none", Response(401, "false", -1, "Access token required"), 0)
    ELSE IF identity = "throws"
    THEN Verdict(FALSE, "none", Response(500, "false", -1, "Authentication failed"), 0)
    ELSE LET got == GetUser(Token(header), identity)
         IN  IF Refused(got)
             THEN Verdict(FALSE, "none",
                          Response(401, "false", -1, "Invalid or expired session"), 0)
             ELSE IF got.user = "none"
             THEN \* user.id of null throws: line 137-141
                  Verdict(FALSE, "none", Response(500, "false", -1, "Authentication failed"), 0)
             ELSE IF ~profileOk
             THEN Verdict(FALSE, "none",
                          Response(500, "false", -1, "Failed to get user profile"), 1)
             ELSE \* the profile is the row with id = user.id: line 126-130
                  Verdict(TRUE, got.user, NoResponse, 1)
\* The history of the last request that reached authenticateUser; n is the
\* number of requests answered or handed to a handler before it.
NoLastAuth ==
    [op |-> "none", header |-> NoHeader, identity |-> "answers",
     verdict |-> Verdict(FALSE, "none", NoResponse, 0), n |-> 0]

VARIABLES
    clock,          \* hours since day 0, 00:00 UTC (what new Date() returns)
    user_streaks,   \* table user_streaks: user_id -> row
    req,            \* request slot -> handler state
    nreq,           \* requests started so far
    user_kanji_progress,    \* table user_kanji_progress: (user_id, kanji_id) -> row
    last,           \* history: the last progress request, its answer, the table before it
    written,        \* history: user_id -> the today of the upsert last applied to the user's row
    user_settings,  \* table user_settings: user_id -> row
    lastSettings,   \* history: the last settings request, its answer, the row before it
    user_custom_words,  \* table user_custom_words: its rows and the last id given
    wreq,           \* request slot -> state of a POST /api/custom-words
    lastWord,       \* history: the last DELETE /api/custom-words, the rows before it
    lastAuth        \* history: the last run of authenticateUser

vars == <<clock, user_streaks, req, nreq, user_kanji_progress, last, written,
          user_settings, lastSettings, user_custom_words, wreq, lastWord, lastAuth>>
progressVars == <<user_kanji_progress, last>>
streakVars == <<user_streaks, req, written>>
settingsVars == <<user_settings, lastSettings>>
wordVars == <<user_custom_words, wreq, lastWord>>
authVars == <<lastAuth>>

\* A new request takes the lowest slot that holds no request in flight.
Free(r) == req[r].pc \in {"idle", "done"}
FreeSlot(r) == Free(r) /\ \A q \in Procs : q < r => ~Free(q)

\* --------------------------------------------------- POST /api/streak/update
\* Lines 543-552: today is computed and the select is issued.
StreakBegin(r, u) ==
    /\ FreeSlot(r)
    /\ nreq < MaxRequests
    /\ nreq' = nreq + 1
    /\ req' = [req EXCEPT ![r] =
                 [IdleReq EXCEPT !.pc = "select", !.user = u,
                                 !.today = ISODate(clock),
                                 !.start = user_streaks[u]]]
    /\ UNCHANGED <<clock, user_streaks, written, progressVars, settingsVars, wordVars, authVars>>

\* What the handler destructures from the select: { data } only.  .single()
\* answers data = null both when no row matches (PGRST116) and when the
\* store call fails; the error is not looked at.
SelectData(row, ok) == IF ok /\ row.present THEN row ELSE NoRow

\* Lines 554-570: the streak the handler decides to write.
NewStreakFromZero(data, today, yesterdayStr) ==
    IF data.present /\ data.last_review_date = yesterdayStr
    THEN data.daily_streak + 1
    ELSE 0
NewStreak(data, today, yesterdayStr) ==
    IF data.present /\ data.last_review_date = yesterdayStr
    THEN data.daily_streak + 1
    ELSE 1

\* Line 562: the early return.
AlreadyReviewedNever(data, today) == FALSE
AlreadyReviewed(data, today) ==
    data.present /\ data.last_review_date = today

\* Lines 548-583: the select is served; the handler resumes, reads the clock
\* again for yesterday, and either answers at once or issues the upsert.
StreakSelect(r) ==
    /\ req[r].pc = "select"
    /\ \E ok \in BOOLEAN, back \in LocalDayHours :
         LET row  == user_streaks[req[r].user]
             data == SelectData(row, ok)
             yst  == YesterdayStr(clock, back)
             base == [req[r] EXCEPT !.data = data, !.seen = row, !.readOk = ok,
                                    !.yesterdayStr = yst]
         IN  IF AlreadyReviewed(data, req[r].today)
             THEN req' = [req EXCEPT ![r] =
                            [base EXCEPT !.pc = "done",
                                         !.res = Response(200, "true", data.daily_streak, ""),
                                         !.after = row]]
             ELSE req' = [req EXCEPT ![r] =
                            [base EXCEPT !.pc = "upsert",
                                         !.newStreak = NewStreak(data, req[r].today, yst)]]
    /\ UNCHANGED <<clock, user_streaks, nreq, written, progressVars, settingsVars, wordVars, authVars>>

\* Lines 572-577: streakData, the row the upsert carries.
StreakDataYesterday(newStreak, today) == StreakRow(newStreak, today - 1)
StreakData(newStreak, today) == StreakRow(newStreak, today)

\* Lines 579-590: the upsert (onConflict: user_id) is served.
StreakUpsert(r) ==
    /\ req[r].pc = "upsert"
    /\ \E ok \in BOOLEAN :
         IF ok
         THEN /\ user_streaks' = [user_streaks EXCEPT ![req[r].user] =
                                    StreakData(req[r].newStreak, req[r].today)]
              /\ req' = [req EXCEPT ![r] =
                           [@ EXCEPT !.pc = "done", !.wrote = TRUE,
                                     !.over = user_streaks[req[r].user],
                                     !.res = Response(200, "true", req[r].newStreak, ""),
                                     !.after = StreakData(req[r].newStreak, req[r].today)]]
              /\ written' = [written EXCEPT ![req[r].user] = req[r].today]
         ELSE /\ user_streaks' = user_streaks
              /\ written' = written
              /\ req' = [req EXCEPT ![r] =
                           [@ EXCEPT !.pc = "done",
                                     !.res = Response(500, "absent", -1, "Failed to update streak"),
                                     !.after = user_streaks[req[r].user]]]
    /\ UNCHANGED <<clock, nreq, progressVars, settingsVars, wordVars, authVars>>

\* Time passes (observed only through the handlers' new Date(): the clock
\* stops once no request can read it any more).  The store answers a select
\* within a day: a request in flight sees at most one midnight go by.
ClockRead == nreq < MaxRequests \/ \E r \in Procs : req[r].pc = "select"
Tick ==
    /\ ClockRead
    /\ \E t \in ClockValues :
         /\ t > clock
         /\ \A r \in Procs : req[r].pc = "select" => ISODate(t) <= req[r].today + 1
         /\ clock' = t
    /\ UNCHANGED <<user_streaks, req, nreq, written, progressVars, settingsVars, wordVars, authVars>>

StreakInit ==
    /\ clock = 24
    /\ \E row \in InitRows :
         user_streaks = [v \in Users |-> IF v = "u1" THEN row ELSE NoRow]
    /\ written = [v \in Users |-> user_streaks[v].last_review_date]
    /\ req = [r \in Procs |-> IdleReq]
    /\ nreq = 0
    /\ user_kanji_progress = EmptyTable
    /\ last = NoLast
    /\ user_settings = EmptySettingsTable
    /\ lastSettings = NoLastSettings
    /\ user_custom_words = WordTable(0)
    /\ wreq = [r \in Procs |-> IdleWordReq]
    /\ lastWord = NoLastWord
    /\ lastAuth = NoLastAuth

StreakNext ==
    \/ \E r \in Procs, u \in Users : StreakBegin(r, u)
    \/ \E r \in Procs : StreakSelect(r)
    \/ \E r \in Procs : StreakUpsert(r)
    \/ Tick

StreakSpec == StreakInit /\ [][StreakNext]_vars

\* Lines 818-854: POST /api/progress/update.  One store call; the handler
\* touches no shared state before or after it, so the request is one step.
ProgressUpdate(user, body) ==
    /\ nreq < MaxProgressRequests
    /\ nreq' = nreq + 1
    /\ \E ok \in BOOLEAN :
         LET out == Upsert(user_kanji_progress, <<UpdateRecord(user, body, clock)>>, ok)
         IN  /\ user_kanji_progress' = out.table
             /\ last' = [op |-> "update", user |-> user, body |-> body,
                         kpd |-> NotArray("undefined"),
                         res |-> IF out.error
                                 THEN Response(500, "absent", -1, "Failed to update progress")
                                 ELSE Response(200, "true", -1, ""),
                         calls |-> 1, fault |-> ~ok, progress |-> {},
                         before |-> user_kanji_progress]
    /\ UNCHANGED <<clock, streakVars, settingsVars, wordVars, authVars>>

\* Lines 598-644: POST /api/progress/bulk-update.  At most one store call.
BulkUpdate(user, kpd) ==
    /\ nreq < MaxProgressRequests
    /\ nreq' = nreq + 1
    /\ LET answer(res, calls, fault) ==
               [op |-> "bulk", user |-> user, body |-> UpdateBody(Undefined, EmptyData),
                kpd |-> kpd, res |-> res, calls |-> calls, fault |-> fault,
                progress |-> {}, before |-> user_kanji_progress]
       IN  IF ~IsBatch(kpd)
           THEN \* line 602-604
                /\ user_kanji_progress' = user_kanji_progress
                /\ last' = answer(Response(400, "absent", -1, "Invalid kanji progress data"), 0, FALSE)
           ELSE IF \E i \in 1..Len(kpd.items) : Throws(kpd.items[i])
           THEN \* the map callback throws: line 640-643
                /\ user_kanji_progress' = user_kanji_progress
                /\ last' = answer(Response(500, "absent", -1, "Failed to update progress"), 0, FALSE)
           ELSE \E ok \in BOOLEAN :
                LET out == Upsert(user_kanji_progress,
                                  BulkRecords(user, kpd.items, clock), ok)
                IN  /\ user_kanji_progress' = out.table
                    /\ last' = answer(IF out.error
                                      THEN Response(500, "absent", -1, "Failed to update progress")
                                      ELSE Response(200, "true", Len(kpd.items), ""),
                                      1, ~ok)
    /\ UNCHANGED <<clock, streakVars, settingsVars, wordVars, authVars>>

\* Line 500-503 without the filter on user_id.
SelectAllUsers(table, user) ==
    {[user_id |-> k[1], kanji_id |-> k[2], cols |-> table[k].cols] :
        k \in {x \in DOMAIN table : table[x].present}}
\* Line 500-503: select('*').eq('user_id', req.user.id) on user_kanji_progress.
Select(table, user) ==
    {[user_id |-> k[1], kanji_id |-> k[2], cols |-> table[k].cols] :
        k \in {x \in DOMAIN table : table[x].present /\ x[1] = user}}

\* Lines 497-514: GET /api/progress.  One store call, a read; the response
\* carries the rows read.
GetProgress(user) ==
    /\ nreq < MaxProgressRequests
    /\ nreq' = nreq + 1
    /\ \E ok \in BOOLEAN :
         last' = [op |-> "get", user |-> user, body |-> UpdateBody(Undefined, EmptyData),
                  kpd |-> NotArray("undefined"),
                  res |-> IF ok
                          THEN Response(200, "true", -1, "")
                          ELSE Response(500, "absent", -1, "Failed to get progress"),
                  calls |-> 1, fault |-> ~ok,
                  progress |-> IF ok THEN Select(user_kanji_progress, user) ELSE {},
                  before |-> user_kanji_progress]
    /\ UNCHANGED <<clock, user_kanji_progress, streakVars, settingsVars, wordVars, authVars>>

ProgressInit ==
    /\ clock = 24
    /\ user_streaks = [u \in Users |-> NoRow]
    /\ req = [r \in Procs |-> IdleReq]
    /\ nreq = 0
    /\ user_kanji_progress \in InitTables
    /\ last = NoLast
    /\ written = [u \in Users |-> NoDate]
    /\ user_settings = EmptySettingsTable
    /\ lastSettings = NoLastSettings
    /\ user_custom_words = WordTable(0)
    /\ wreq = [r \in Procs |-> IdleWordReq]
    /\ lastWord = NoLastWord
    /\ lastAuth = NoLastAuth

ProgressNext ==
    \/ \E u \in Users, body \in UpdateBodies : ProgressUpdate(u, body)
    \/ \E u \in Users, kpd \in KanjiProgressDatas : BulkUpdate(u, kpd)
    \/ \E u \in Users : GetProgress(u)

ProgressSpec == ProgressInit /\ [][ProgressNext]_vars

\* ------------------------------------------------------- settings endpoints
\* Lines 652-661: the select of the user's row.  .single() gives data = null
\* with error PGRST116 when there is no row, which the handler lets pass;
\* any other error (ok = FALSE) is answered 500.
\* Lines 650-696: GET /api/settings.
GetSettings(user) ==
    /\ nreq < MaxSettingsRequests
    /\ nreq' = nreq + 1
    /\ \E ok \in BOOLEAN :
         lastSettings' =
             [op |-> "get", user |-> user, body |-> EmptySettingsBody,
              language |-> Undefined,
              res |-> IF ok
                      THEN SettingsResponse(200, "true",
                                            Settings(user_settings[user], user),
                                            Undefined, "")
                      ELSE SettingsResponse(500, "absent", EmptySettingsBody, Undefined,
                                            "Failed to get settings"),
              calls |-> 0, before |-> user_settings[user]]
    /\ UNCHANGED <<clock, user_settings, streakVars, progressVars, wordVars, authVars>>

\* Lines 720-733: settingsData.
SettingsDataLanguageAsSent(body, now) ==
    [c \in SettingsColumns |->
        CASE c = "profile_name"          -> Sent(body.profileName)
          [] c = "max_level"             -> Sent(body.maxLevel)
          [] c = "jlpt_level"            -> Sent(body.jlptLevel)
          [] c = "max_interval"          -> Sent(body.maxInterval)
          [] c = "show_progress"         -> Sent(body.showProgress)
          [] c = "show_drawing"          -> Sent(body.showDrawing)
          [] c = "show_study_progress"   -> Sent(body.showStudyProgress)
          [] c = "default_question_mode" -> Sent(body.defaultQuestionMode)
          [] c = "dark_mode"             -> Sent(body.darkMode)
          [] c = "language"              -> Sent(body.language)
          [] OTHER                       -> ISOTime(now)]
SettingsData(body, now) ==
    [c \in SettingsColumns |->
        CASE c = "profile_name"          -> Sent(body.profileName)
          [] c = "max_level"             -> Sent(body.maxLevel)
          [] c = "jlpt_level"            -> Sent(body.jlptLevel)
          [] c = "max_interval"          -> Sent(body.maxInterval)
          [] c = "show_progress"         -> Sent(body.showProgress)
          [] c = "show_drawing"          -> Sent(body.showDrawing)
          [] c = "show_study_progress"   -> Sent(body.showStudyProgress)
          [] c = "default_question_mode" -> Sent(body.defaultQuestionMode)
          [] c = "dark_mode"             -> Sent(body.darkMode)
          [] c = "language"              -> Or(body.language, Str(<<"en">>))
          [] OTHER                       -> ISOTime(now)]

\* Lines 699-756: PUT /api/settings.
PutSettings(user, body) ==
    /\ nreq < MaxSettingsRequests
    /\ nreq' = nreq + 1
    /\ LET answer(res, calls) ==
               [op |-> "put", user |-> user, body |-> body, language |-> Undefined,
                res |-> res, calls |-> calls, before |-> user_settings[user]]
       IN  IF Truthy(body.language) /\ ~Supported(body.language)
           THEN \* lines 716-718
                /\ user_settings' = user_settings
                /\ lastSettings' =
                       answer(SettingsResponse(400, "absent", EmptySettingsBody, Undefined,
                                               "Invalid language. Must be \"en\" or \"ja\""), 0)
           ELSE \E ok \in BOOLEAN :
                IF ok
                THEN /\ user_settings' =
                            [user_settings EXCEPT ![user] =
                                MergeSettings(@, SettingsData(body, clock))]
                     /\ lastSettings' =
                            answer(SettingsResponse(200, "true", EmptySettingsBody,
                                                    Undefined, ""), 1)
                ELSE /\ user_settings' = user_settings
                     /\ lastSettings' =
                            answer(SettingsResponse(500, "absent", EmptySettingsBody,
                                                    Undefined, "Failed to save settings"), 1)
    /\ UNCHANGED <<clock, streakVars, progressVars, wordVars, authVars>>

\* Lines 793-797: the record PUT /api/user/language upserts.
LanguageDataAllColumns(language, now) ==
    [c \in SettingsColumns |->
        CASE c = "language"   -> language
          [] c = "updated_at" -> ISOTime(now)
          [] OTHER            -> Null]
LanguageData(language, now) ==
    [c \in SettingsColumns |->
        CASE c = "language"   -> language
          [] c = "updated_at" -> ISOTime(now)
          [] OTHER            -> Unset]

\* Lines 782-815: PUT /api/user/language.
PutLanguage(user, language) ==
    /\ nreq < MaxSettingsRequests
    /\ nreq' = nreq + 1
    /\ LET answer(res, calls) ==
               [op |-> "language", user |-> user, body |-> EmptySettingsBody,
                language |-> language, res |-> res, calls |-> calls,
                before |-> user_settings[user]]
       IN  IF ~Truthy(language) \/ ~Supported(language)
           THEN \* lines 787-789
                /\ user_settings' = user_settings
                /\ lastSettings' =
                       answer(SettingsResponse(400, "absent", EmptySettingsBody, Undefined,
                                               "Invalid language. Must be \"en\" or \"ja\""), 0)
           ELSE \E ok \in BOOLEAN :
                IF ok
                THEN /\ user_settings' =
                            [user_settings EXCEPT ![user] =
                                MergeSettings(@, LanguageData(language, clock))]
                     /\ lastSettings' =
                            answer(SettingsResponse(200, "true", EmptySettingsBody,
                                                    language, ""), 1)
                ELSE /\ user_settings' = user_settings
                     /\ lastSettings' =
                            answer(SettingsResponse(500, "absent", EmptySettingsBody, Undefined,
                                                    "Failed to update language preference"), 1)
    /\ UNCHANGED <<clock, streakVars, progressVars, wordVars, authVars>>

SettingsInit ==
    /\ clock = 24
    /\ user_streaks = [u \in Users |-> NoRow]
    /\ req = [r \in Procs |-> IdleReq]
    /\ nreq = 0
    /\ written = [u \in Users |-> NoDate]
    /\ user_kanji_progress = EmptyTable
    /\ last = NoLast
    /\ user_settings = EmptySettingsTable
    /\ lastSettings = NoLastSettings
    /\ user_custom_words = WordTable(0)
    /\ wreq = [r \in Procs |-> IdleWordReq]
    /\ lastWord = NoLastWord
    /\ lastAuth = NoLastAuth

SettingsNext ==
    \/ \E u \in Users : GetSettings(u)
    \/ \E u \in Users, body \in SettingsBodies : PutSettings(u, body)
    \/ \E u \in Users, language \in Languages : PutLanguage(u, language)

SettingsSpec == SettingsInit /\ [][SettingsNext]_vars

\* -------------------------------------------------- POST /api/custom-words
FreeWord(r) == wreq[r].pc \in {"idle", "done"}
FreeWordSlot(r) == FreeWord(r) /\ \A q \in Procs : q < r => ~FreeWord(q)

\* Lines 912-921: the body is read and the count query is issued.
AddBegin(r, user, kanjiId) ==
    /\ FreeWordSlot(r)
    /\ nreq < MaxWordRequests
    /\ nreq' = nreq + 1
    /\ wreq' = [wreq EXCEPT ![r] =
                  [IdleWordReq EXCEPT !.pc = "count", !.user = user,
                                      !.kanjiId = kanjiId]]
    /\ UNCHANGED <<clock, user_custom_words, lastWord, streakVars, progressVars,
                   settingsVars, authVars>>

\* Lines 917-929: the count query is served.  It filters kanji_id, an
\* integer column, on the raw body value: the store refuses a value that is
\* no integer.
AddCount(r) ==
    /\ wreq[r].pc = "count"
    /\ \E ok \in BOOLEAN :
         LET answer(res) == [wreq[r] EXCEPT !.pc = "done", !.res = res]
             count == Cardinality(Matching(user_custom_words.rows, wreq[r].user,
                                           KeyOf(wreq[r].kanjiId)))
         IN  IF ~ok \/ ~IsKey(wreq[r].kanjiId)
             THEN wreq' = [wreq EXCEPT ![r] =
                             answer(Response(500, "absent", -1, "Failed to check word count"))]
             ELSE IF count >= MaxCustomWords
             THEN wreq' = [wreq EXCEPT ![r] =
                             [answer(Response(400, "absent", -1,
                                              "Maximum 3 custom words per kanji"))
                                 EXCEPT !.count = count]]
             ELSE wreq' = [wreq EXCEPT ![r] =
                             [@ EXCEPT !.pc = "insert", !.count = count]]
    /\ UNCHANGED <<clock, nreq, user_custom_words, lastWord, streakVars, progressVars,
                   settingsVars, authVars>>

\* Lines 931-950: the insert (kanji_id: parseInt(kanjiId)) is served.
AddInsert(r) ==
    /\ wreq[r].pc = "insert"
    /\ \E ok \in BOOLEAN :
         IF ok
         THEN /\ user_custom_words' =
                   [rows |-> user_custom_words.rows \cup
                                {WordRow(user_custom_words.seq + 1, wreq[r].user,
                                         ParseInt(wreq[r].kanjiId).v)},
                    seq  |-> user_custom_words.seq + 1]
              /\ wreq' = [wreq EXCEPT ![r] =
                            [@ EXCEPT !.pc = "done",
                                      !.res = Response(200, "true", -1, "")]]
         ELSE /\ user_custom_words' = user_custom_words
              /\ wreq' = [wreq EXCEPT ![r] =
                            [@ EXCEPT !.pc = "done",
                                      !.res = Response(500, "absent", -1,
                                                       "Failed to add custom word")]]
    /\ UNCHANGED <<clock, nreq, lastWord, streakVars, progressVars, settingsVars,
                   authVars>>

\* Lines 958-975: DELETE /api/custom-words/:wordId.  One store call.
DeleteWord(user, wordId) ==
    /\ nreq < MaxWordRequests
    /\ nreq' = nreq + 1
    /\ \E ok \in BOOLEAN :
         /\ user_custom_words' =
              IF ok
              THEN [user_custom_words EXCEPT
                      !.rows = @ \ Deleted(user_custom_words.rows, wordId, user)]
              ELSE user_custom_words
         /\ lastWord' = [op |-> "delete", user |-> user, wordId |-> wordId,
                         res |-> IF ok
                                 THEN Response(200, "true", -1, "")
                                 ELSE Response(500, "absent", -1,
                                               "Failed to delete custom word"),
                         before |-> user_custom_words.rows]
    /\ UNCHANGED <<clock, wreq, streakVars, progressVars, settingsVars, authVars>>

WordsInit ==
    /\ clock = 24
    /\ user_streaks = [u \in Users |-> NoRow]
    /\ req = [r \in Procs |-> IdleReq]
    /\ nreq = 0
    /\ written = [u \in Users |-> NoDate]
    /\ user_kanji_progress = EmptyTable
    /\ last = NoLast
    /\ user_settings = EmptySettingsTable
    /\ lastSettings = NoLastSettings
    /\ \E n \in InitWordCounts : user_custom_words = WordTable(n)
    /\ wreq = [r \in Procs |-> IdleWordReq]
    /\ lastWord = NoLastWord
    /\ lastAuth = NoLastAuth

WordsNext ==
    \/ \E r \in Procs, u \in Users, kanjiId \in WordKanjiIds : AddBegin(r, u, kanjiId)
    \/ \E r \in Procs : AddCount(r)
    \/ \E r \in Procs : AddInsert(r)
    \/ \E u \in Users, wordId \in WordIds : DeleteWord(u, wordId)

WordsSpec == WordsInit /\ [][WordsNext]_vars

\* ------------------------------------------- the endpoints behind the check
\* app.get/post/put/delete(path, authenticateUser, handler): the handler of a
\* request runs when authenticateUser called next() for it, with req.user
\* as authenticateUser set it.
Pending ==
    lastAuth.op = "auth" /\ lastAuth.verdict.next /\ lastAuth.n = nreq
Admitted(user) == Pending /\ lastAuth.verdict.user = user

\* Lines 85-143: a request reaches authenticateUser, which answers it or hands
\* it to its handler.
Authenticate(header, identity, profileOk) ==
    /\ nreq < MaxApiRequests
    /\ ~Pending
    /\ LET verdict == AuthenticateUser(header, identity, profileOk)
       IN  /\ lastAuth' = [op |-> "auth", header |-> header, identity |-> identity,
                           verdict |-> verdict, n |-> nreq]
           /\ nreq' = IF verdict.next THEN nreq ELSE nreq + 1
    /\ UNCHANGED <<clock, streakVars, progressVars, settingsVars, wordVars>>

\* A body that also carries a user_id key.
Forged(body, user) == [user_id |-> user] @@ body

ApiSettingsTable ==
    [u \in Users |-> MergeSettings(NoSettingsRow, SettingsData(FullSettingsBody, 0))]

ApiInit ==
    /\ clock = 24
    /\ user_streaks = [u \in Users |-> StreakRow(3, 0)]
    /\ req = [r \in Procs |-> IdleReq]
    /\ nreq = 0
    /\ written = [u \in Users |-> 0]
    /\ user_kanji_progress = SeededTable
    /\ last = NoLast
    /\ user_settings = ApiSettingsTable
    /\ lastSettings = NoLastSettings
    /\ user_custom_words = WordTable(MaxCustomWords - 1)
    /\ wreq = [r \in Procs |-> IdleWordReq]
    /\ lastWord = NoLastWord
    /\ lastAuth = NoLastAuth

ApiNext ==
    \/ \E header \in Headers, identity \in Identities, profileOk \in BOOLEAN :
          Authenticate(header, identity, profileOk)
    \/ \E u \in Users, v \in Users :
          Admitted(u) /\ v # u /\ ProgressUpdate(u, Forged(UpdateBody(Num(1), FullData), v))
    \/ \E u \in Users, v \in Users :
          Admitted(u) /\ v # u /\ BulkUpdate(u, Array(<<Forged(Pair(Num(2), FullData), v)>>))
    \/ \E u \in Users : Admitted(u) /\ GetProgress(u)
    \/ \E u \in Users, r \in Procs : Admitted(u) /\ StreakBegin(r, u)
    \/ \E r \in Procs : StreakSelect(r)
    \/ \E r \in Procs : StreakUpsert(r)
    \/ \E u \in Users : Admitted(u) /\ GetSettings(u)
    \/ \E u \in Users, v \in Users :
          Admitted(u) /\ v # u /\ PutSettings(u, Forged(FullSettingsBody, v))
    \/ \E u \in Users, language \in {Str(<<"ja">>), Str(<<"fr">>)} :
          Admitted(u) /\ PutLanguage(u, language)
    \/ \E u \in Users, r \in Procs : Admitted(u) /\ AddBegin(r, u, Num(1))
    \/ \E r \in Procs : AddCount(r)
    \/ \E r \in Procs : AddInsert(r)
    \/ \E u \in Users, wordId \in WordIds : Admitted(u) /\ DeleteWord(u, wordId)

ApiSpec == ApiInit /\ [][ApiNext]_vars


\* ------------------------------------------------------- streak properties
Done(r) == req[r].pc = "done"
\* The request was answered 200: the store applied its upsert, or the
\* handler returned early.
Answered(r) == Done(r) /\ req[r].res.status = 200
\* The select of request r was served (no store error), as was its upsert if
\* it issued one.
Served(r) == Answered(r) /\ req[r].readOk

\* C1: a streak update whose select finds last_review_date equal to the
\* request's today writes nothing, leaves the row as it is and answers the
\* stored daily_streak; so of two updates of one user with the same today, the
\* one that reads what the other left behind answers the same streak.
C1_SameDayIdempotent ==
    /\ \A r \in Procs :
         (Done(r) /\ req[r].readOk /\ req[r].seen.present
                  /\ req[r].seen.last_review_date = req[r].today)
         => /\ ~req[r].wrote
            /\ req[r].after = req[r].seen
            /\ req[r].res = Response(200, "true", req[r].seen.daily_streak, "")
    /\ \A r1, r2 \in Procs :
         (r1 # r2 /\ Served(r1) /\ Served(r2) /\ req[r1].user = req[r2].user
                  /\ req[r1].today = req[r2].today /\ req[r2].seen = req[r1].after)
         => req[r2].res.value = req[r1].res.value

\* C1 witness: one request extended the streak to 4, and a second request of
\* the same user with the same today read that row and answered 4 again.
C1_Witness ==
    \E r1, r2 \in Procs :
        /\ r1 # r2 /\ Served(r1) /\ Served(r2) /\ req[r1].user = req[r2].user
        /\ req[r1].today = req[r2].today /\ req[r1].wrote /\ ~req[r2].wrote
        /\ req[r2].seen = req[r1].after
        /\ req[r1].res.value = 4 /\ req[r2].res.value = 4

\* C2: a served streak update whose select finds {N, today - 1} answers N + 1
\* and leaves {N + 1, today} in the table.
C2_ConsecutiveDayIncrements ==
    \A r \in Procs :
        (Served(r) /\ req[r].seen.present
                   /\ req[r].seen.last_review_date = req[r].today - 1)
        => /\ req[r].res.value = req[r].seen.daily_streak + 1
           /\ req[r].after = StreakRow(req[r].seen.daily_streak + 1, req[r].today)

\* C3: a served streak update whose select finds a last_review_date two or
\* more days before today, or after today, answers 1 and leaves {1, today}.
C3_GapResets ==
    \A r \in Procs :
        (Served(r) /\ req[r].seen.present
                   /\ (\/ req[r].seen.last_review_date <= req[r].today - 2
                       \/ req[r].seen.last_review_date > req[r].today))
        => /\ req[r].res.value = 1
           /\ req[r].after = StreakRow(1, req[r].today)

\* C4: a streak update whose select finds no row for the user, and whose
\* upsert the store applies, answers 1, has written once, and leaves the one
\* row {1, today} for that user.
C4_NoPriorStateStartsAtOne ==
    \A r \in Procs :
        (Answered(r) /\ ~req[r].seen.present)
        => /\ req[r].res = Response(200, "true", 1, "")
           /\ req[r].wrote
           /\ req[r].after = StreakRow(1, req[r].today)

\* C4 witness: a request found no row and was answered.
C4_Witness ==
    \E r \in Procs :
        /\ Answered(r) /\ ~req[r].seen.present /\ req[r].readOk
        /\ user_streaks[req[r].user] = StreakRow(1, req[r].today)

\* C5: two served streak updates of one user with the same today, the first
\* select finding {N, today - 1} and the other finding that row or the row
\* the first left: both answer N + 1 and the table ends with {N + 1, today}.
C5_ConcurrentSameDayIncrementsOnce ==
    \A r1, r2 \in Procs :
        (/\ r1 # r2 /\ Served(r1) /\ Served(r2)
         /\ req[r1].user = req[r2].user /\ req[r1].today = req[r2].today
         /\ req[r1].seen.present
         /\ req[r1].seen.last_review_date = req[r1].today - 1
         /\ req[r2].seen \in {req[r1].seen, req[r1].after})
        => /\ req[r1].res.value = req[r1].seen.daily_streak + 1
           /\ req[r2].res.value = req[r1].seen.daily_streak + 1
           /\ user_streaks[req[r1].user] =
                  StreakRow(req[r1].seen.daily_streak + 1, req[r1].today)

\* ----------------------------------------------------- progress properties
\* The last request was a bulk update of an array (lastItems), each element a
\* pair whose kanjiId parses to an integer.
LastBulk == last.op = "bulk"
lastItems == last.kpd.items
WellFormed(entry) == ~Throws(entry) /\ IsKey(ParseInt(entry.kanjiId))
EntryKey(entry) == <<last.user, KeyOf(ParseInt(entry.kanjiId))>>
\* The row that element i of the batch asks for.
EntryRow(i) ==
    MergeRow(last.before[EntryKey(lastItems[i])],
             BulkRecord(last.user, lastItems[i], clock))
\* Element i is the last one of the batch with its item.
LastOccurrence(i) ==
    \A j \in 1..Len(lastItems) :
        (j > i /\ WellFormed(lastItems[j])) => EntryKey(lastItems[j]) # EntryKey(lastItems[i])

\* C6: a bulk update is applied as a whole or not at all.  Answered 200, the
\* table holds every element's row; answered anything else (an element the
\* handler cannot take apart or the store cannot take, at any position, or a
\* failing store), the table is what it was before the request.
C6_BulkAllOrNothing ==
    LastBulk =>
        IF last.res.status = 200
        THEN \A i \in 1..Len(lastItems) :
                /\ WellFormed(lastItems[i])
                /\ user_kanji_progress[EntryKey(lastItems[i])] = EntryRow(i)
        ELSE user_kanji_progress = last.before

\* C6 witness: a batch of two whose first element is fine and whose second is
\* not was answered 500 with the seeded rows left as they were.
C6_Witness ==
    /\ LastBulk /\ last.kpd.kind = "array" /\ Len(lastItems) = 2
    /\ WellFormed(lastItems[1]) /\ ~WellFormed(lastItems[2])
    /\ last.res.status = 500
    /\ last.before = SeededTable /\ user_kanji_progress = SeededTable

\* C7: a bulk update with several elements for one item is answered 200 (the
\* store not failing) and leaves that item with the row of the last of them.
C7_LastOccurrenceWins ==
    (/\ LastBulk /\ last.kpd.kind = "array" /\ ~last.fault
     /\ \A i \in 1..Len(lastItems) : WellFormed(lastItems[i])
     /\ \E i, j \in 1..Len(lastItems) :
            i # j /\ EntryKey(lastItems[i]) = EntryKey(lastItems[j]))
    => /\ last.res.status = 200
       /\ \A i \in 1..Len(lastItems) :
            LastOccurrence(i) => user_kanji_progress[EntryKey(lastItems[i])] = EntryRow(i)

\* C8: a bulk update whose kanjiProgressData is missing or is no array is
\* answered 400, calls the store not once, and leaves the table as it was.
C8_NotASequenceRejected ==
    (LastBulk /\ last.kpd.kind # "array")
    => /\ last.res.status = 400
       /\ last.calls = 0
       /\ user_kanji_progress = last.before

\* C8 witness: an object sent as kanjiProgressData was answered 400 while the
\* table held rows.
C8_Witness ==
    /\ LastBulk /\ last.kpd.kind = "object" /\ last.res.status = 400
    /\ user_kanji_progress = SeededTable

\* C9: a bulk update changes no row of another user and no row of the caller
\* whose kanji_id is the item of no element of the batch.
C9_BulkFrame ==
    LastBulk =>
        \A k \in DOMAIN user_kanji_progress :
            (\/ k[1] # last.user
             \/ \A i \in 1..Len(lastItems) :
                    WellFormed(lastItems[i]) => EntryKey(lastItems[i]) # k)
            => user_kanji_progress[k] = last.before[k]

\* C9 witness: u1's bulk update of item 1 alone changed that row and left
\* u1's row of item 2 and u2's row of item 1, both present, as they were.
C9_Witness ==
    /\ LastBulk /\ last.user = "u1" /\ last.res.status = 200 /\ Len(lastItems) = 1
    /\ EntryKey(lastItems[1]) = <<"u1", 1>>
    /\ last.before = SeededTable
    /\ user_kanji_progress[<<"u1", 1>>] # SeededTable[<<"u1", 1>>]
    /\ user_kanji_progress[<<"u1", 2>>] = SeededTable[<<"u1", 2>>]
    /\ user_kanji_progress[<<"u2", 1>>] = SeededTable[<<"u2", 1>>]

\* The table the other endpoint leaves from the same table before, given the
\* same id and values: for a bulk update of one pair, POST /api/progress/update
\* with that id and progressData; for an update, the bulk update of that pair.
AsUpdate ==
    Upsert(last.before,
           <<UpdateRecord(last.user,
                          UpdateBody(lastItems[1].kanjiId, lastItems[1].progressData),
                          clock)>>,
           TRUE).table
AsBulk ==
    Upsert(last.before,
           <<BulkRecord(last.user,
                        Pair(last.body.kanji_id,
                             [learned |-> last.body.learned,
                              inReview |-> last.body.in_review,
                              interval |-> last.body.srs_interval,
                              ease |-> last.body.ease_factor,
                              consecutiveCorrect |-> last.body.consecutive_correct,
                              totalReviews |-> last.body.total_reviews,
                              correctReviews |-> last.body.correct_reviews,
                              lastReview |-> last.body.last_review,
                              nextReview |-> last.body.next_review,
                              mnemonic |-> last.body.mnemonic]),
                        clock)>>,
           TRUE).table
OnePairApplied ==
    /\ LastBulk /\ last.res.status = 200 /\ Len(lastItems) = 1
UpdateApplied == last.op = "update" /\ last.res.status = 200

\* C10 as claimed: a bulk update of one pair and the single update with the
\* same id and values leave the same table.
C10_BulkEntryLikeSingleUpsert ==
    /\ OnePairApplied => user_kanji_progress = AsUpdate
    /\ UpdateApplied => user_kanji_progress = AsBulk

\* The columns both endpoints fill from the request in the same way.
SameColumns == Columns \ {"last_review", "updated_at"}
\* C10 amended: for an id that is an integer, a bulk update of one pair and
\* the single update with the same id and values leave a row for the same
\* key, with the same value in every column but last_review (the update
\* stores the server time, the bulk update the lastReview sent or null) and
\* updated_at (only the bulk update writes it); no other row differs.
C10_SameFieldsButLastReview ==
    /\ (OnePairApplied /\ IsKey(lastItems[1].kanjiId))
       => \A k \in DOMAIN user_kanji_progress :
            /\ user_kanji_progress[k].present = AsUpdate[k].present
            /\ \A c \in SameColumns :
                 user_kanji_progress[k].cols[c] = AsUpdate[k].cols[c]
            /\ k # EntryKey(lastItems[1]) => user_kanji_progress[k] = AsUpdate[k]
    /\ UpdateApplied
       => \A k \in DOMAIN user_kanji_progress :
            /\ user_kanji_progress[k].present = AsBulk[k].present
            /\ \A c \in SameColumns :
                 user_kanji_progress[k].cols[c] = AsBulk[k].cols[c]
            /\ k # <<last.user, KeyOf(last.body.kanji_id)>>
               => user_kanji_progress[k] = AsBulk[k]

\* C10 witness: a bulk update of one pair that sets nothing but the id
\* created a row with every default, as the single update would.
C10_Witness ==
    /\ OnePairApplied /\ lastItems[1] = Pair(Num(1), EmptyData)
    /\ last.before = EmptyTable
    /\ user_kanji_progress[<<last.user, 1>>].cols["srs_interval"] = Num(1)
    /\ user_kanji_progress[<<last.user, 1>>].cols["ease_factor"] = Num(EaseDefault)
    /\ AsUpdate[<<last.user, 1>>].cols["ease_factor"] = Num(EaseDefault)
    /\ AsUpdate[<<last.user, 1>>].present

\* ------------------------------------------- progress properties, continued
\* The row of the key the last POST /api/progress/update wrote.
UpdatedRow == user_kanji_progress[<<last.user, KeyOf(last.body.kanji_id)>>]
\* The default the contract gives a field the request leaves out: interval 1,
\* ease 2.5, the counters 0, the flags false, the optional fields null.
DocumentedDefault(c) ==
    CASE c \in {"learned", "in_review"} -> Bool(FALSE)
      [] c = "srs_interval" -> Num(1)
      [] c = "ease_factor" -> Num(25)
      [] c \in {"consecutive_correct", "total_reviews", "correct_reviews"} -> Num(0)
      [] OTHER -> Null

\* C11 as claimed: after POST /api/progress/update the row holds, for each of
\* the nine fields, the documented default if the body left it out and the
\* value of the body otherwise.
C11_UpsertDefaultsAndSupplied ==
    UpdateApplied =>
        \A c \in SameColumns :
            UpdatedRow.cols[c] = IF last.body[c] = Undefined
                                 THEN DocumentedDefault(c) ELSE last.body[c]

\* C11 amended: the row holds the documented default for a field the body
\* left out or sent as a falsy value (null, false, 0, ""), and the value of
\* the body for every field sent as a truthy value.
C11_UpsertDefaultsUnlessTruthy ==
    UpdateApplied =>
        \A c \in SameColumns :
            UpdatedRow.cols[c] = IF Truthy(last.body[c])
                                 THEN last.body[c] ELSE DocumentedDefault(c)

\* C11 witness: an update that sent nothing but kanji_id created a row with
\* ease 2.5 and interval 1.
C11_Witness ==
    /\ UpdateApplied /\ last.body = UpdateBody(Num(1), EmptyData)
    /\ ~last.before[<<last.user, 1>>].present
    /\ UpdatedRow.present
    /\ UpdatedRow.cols["ease_factor"] = Num(25)
    /\ UpdatedRow.cols["srs_interval"] = Num(1)
    /\ UpdatedRow.cols["mnemonic"] = Null

\* The rows the table holds.
StoredKeys == {k \in DOMAIN user_kanji_progress : user_kanji_progress[k].present}

\* C12: in every row correct_reviews is at most total_reviews, and a request
\* that sends correct_reviews above total_reviews is not answered 200.
C12_CorrectAtMostTotal ==
    /\ \A k \in StoredKeys :
         user_kanji_progress[k].cols["correct_reviews"].v
             <= user_kanji_progress[k].cols["total_reviews"].v
    /\ (/\ last.op = "update"
        /\ last.body.correct_reviews.t = "number"
        /\ last.body.correct_reviews.v > Or(last.body.total_reviews, Num(0)).v)
       => last.res.status # 200

\* C13: in every row srs_interval is an integer that is at least 1.
C13_IntervalAtLeastOne ==
    \A k \in StoredKeys :
        /\ user_kanji_progress[k].cols["srs_interval"].t = "number"
        /\ user_kanji_progress[k].cols["srs_interval"].v >= 1

C15_StreakStateInvariant ==
    \A u \in Users :
        /\ user_streaks[u].daily_streak = 0
           => /\ ~user_streaks[u].present
              /\ user_streaks[u].last_review_date = NoDate
        /\ user_streaks[u].daily_streak >= 1
           => /\ user_streaks[u].last_review_date # NoDate
              /\ user_streaks[u].last_review_date = written[u]

\* C15 witness: a request's upsert replaced a row dated another day, and the
\* row now carries that request's today.
C15_Witness ==
    \E r \in Procs :
        /\ Done(r) /\ req[r].wrote
        /\ req[r].over.present /\ req[r].over.last_review_date # req[r].today
        /\ user_streaks[req[r].user] = StreakRow(req[r].newStreak, req[r].today)
        /\ written[req[r].user] = req[r].today

\* C16: a request (its select served) does not write a row whose
\* last_review_date another upsert has already set to the request's today.
C16_WrittenOncePerDay ==
    \A r \in Procs :
        (Done(r) /\ req[r].wrote /\ req[r].readOk)
        => req[r].over.last_review_date # req[r].today

\* C17: a request whose select or upsert failed is answered 500 and has not
\* written the row.
C17_StoreFailureLeavesStreak ==
    \A r \in Procs :
        /\ (Done(r) /\ ~req[r].readOk) => (req[r].res.status = 500 /\ ~req[r].wrote)
        /\ (Done(r) /\ req[r].res.status = 500) => ~req[r].wrote

\* C18: once a request has computed yesterdayStr (it does when the select
\* gave it a row), it is the day before the request's today.
C18_YesterdayIsDayBeforeToday ==
    \A r \in Procs :
        (req[r].pc \in {"upsert", "done"} /\ req[r].data.present)
        => req[r].yesterdayStr = req[r].today - 1

\* ------------------------------------------------------ settings properties
\* The last request was a GET /api/settings that was answered 200.
Resolved == lastSettings.op = "get" /\ lastSettings.res.status = 200
\* The default the contract documents for each key of settings; the name
\* falls back to the account's username.
DocumentedSetting(key, user) ==
    CASE key = "profileName" -> Username(user)
      [] key = "maxLevel" -> Num(10)
      [] key = "jlptLevel" -> Str(<<"all">>)
      [] key = "maxInterval" -> Num(180)
      [] key = "defaultQuestionMode" -> Str(<<"meaning-first">>)
      [] key = "darkMode" -> Bool(FALSE)
      [] key = "language" -> Str(<<"en">>)
      [] OTHER -> Bool(TRUE)
\* The keys resolved with !== null.
Toggles == {"showProgress", "showDrawing", "showStudyProgress", "darkMode"}

\* C19: GET /api/settings of a user without a row answers settings with all
\* ten keys, each holding its documented default, the username in
\* profileName and in no other key.
C19_NoRowResolvesToDefaults ==
    (Resolved /\ ~lastSettings.before.present)
    => /\ DOMAIN lastSettings.res.settings = SettingsKeys
       /\ \A key \in SettingsKeys :
            /\ lastSettings.res.settings[key] = DocumentedSetting(key, lastSettings.user)
            /\ lastSettings.res.settings[key] \notin {Undefined, Null}
            /\ key # "profileName"
               => lastSettings.res.settings[key] # Username(lastSettings.user)

\* C19 witness: u2, who has no row while u1 has one, was answered the
\* defaults with profileName bob.
C19_Witness ==
    /\ Resolved /\ lastSettings.user = "u2"
    /\ ~user_settings["u2"].present /\ user_settings["u1"].present
    /\ lastSettings.res.settings.profileName = Str(<<"bob">>)
    /\ lastSettings.res.settings.maxInterval = Num(180)

\* C20 as claimed: GET /api/settings of a user with a row answers, for every
\* key, the value of its column if that is not null (0, "" and false
\* included) and the default if it is null.
C20_PersistedUnlessNull ==
    (Resolved /\ lastSettings.before.present)
    => \A key \in SettingsKeys :
         lastSettings.res.settings[key] =
             IF lastSettings.before.cols[ColumnOf(key)] # Null
             THEN lastSettings.before.cols[ColumnOf(key)]
             ELSE DocumentedSetting(key, lastSettings.user)

\* C20 amended: the four toggles are answered with the value of the column
\* if it is not null (false included); every other key with the value of
\* the column if it is truthy, and with the default if it is null, 0 or "".
C20_PersistedUnlessNullOrFalsy ==
    (Resolved /\ lastSettings.before.present)
    => \A key \in SettingsKeys :
         lastSettings.res.settings[key] =
             IF \/ key \in Toggles /\ lastSettings.before.cols[ColumnOf(key)] # Null
                \/ key \notin Toggles /\ Truthy(lastSettings.before.cols[ColumnOf(key)])
             THEN lastSettings.before.cols[ColumnOf(key)]
             ELSE DocumentedSetting(key, lastSettings.user)

\* C20 witness: a row holding show_progress = false and no max_level was
\* resolved to showProgress false and maxLevel 10.
C20_Witness ==
    /\ Resolved
    /\ lastSettings.before.present
    /\ lastSettings.before.cols["show_progress"] = Bool(FALSE)
    /\ lastSettings.before.cols["max_level"] = Null
    /\ lastSettings.res.settings.showProgress = Bool(FALSE)
    /\ lastSettings.res.settings.maxLevel = Num(10)

\* The last request was a PUT /api/settings.
Saved == lastSettings.op = "put"
\* What it must leave behind when it is refused: 400, no store write, the
\* user's row as it was.
RefusedUnwritten ==
    /\ lastSettings.res.status = 400
    /\ lastSettings.calls = 0
    /\ user_settings[lastSettings.user] = lastSettings.before

\* C21 as claimed: PUT /api/settings whose body carries a language that is
\* neither 'en' nor 'ja' is answered 400, writes nothing and leaves the row.
C21_UnknownLanguageRefused ==
    (Saved /\ lastSettings.body.language # Undefined
           /\ lastSettings.body.language \notin {Str(<<"en">>), Str(<<"ja">>)})
    => RefusedUnwritten

\* C21 amended: the same for a language that is not empty (truthy); an empty
\* string is taken as no language and saved as 'en'.
C21_UnknownNonEmptyLanguageRefused ==
    (Saved /\ Truthy(lastSettings.body.language)
           /\ lastSettings.body.language \notin {Str(<<"en">>), Str(<<"ja">>)})
    => RefusedUnwritten

\* C21 witness: a user with a row sent language 'fr' and was answered 400.
C21_Witness ==
    /\ Saved /\ lastSettings.body.language = Str(<<"fr">>)
    /\ lastSettings.before.present
    /\ RefusedUnwritten

\* C22: PUT /api/settings answered 200 leaves every column whose key the
\* body does not carry, language included, as it was before the request.
C22_SaveKeepsUnspecified ==
    (Saved /\ lastSettings.res.status = 200)
    => \A key \in SettingsKeys :
         lastSettings.body[key] = Undefined
         => user_settings[lastSettings.user].cols[ColumnOf(key)]
                = lastSettings.before.cols[ColumnOf(key)]

\* C23: the language of every row is null, 'en' or 'ja'.
C23_LanguageRecognized ==
    \A u \in Users :
        user_settings[u].cols["language"] \in {Null, Str(<<"en">>), Str(<<"ja">>)}

\* C23 witness: a PUT /api/settings that sent the language '' was answered
\* 200 and the row holds 'en'.
C23_Witness ==
    /\ Saved /\ lastSettings.res.status = 200
    /\ lastSettings.body.language = Str(<<>>)
    /\ user_settings[lastSettings.user].present
    /\ user_settings[lastSettings.user].cols["language"] = Str(<<"en">>)

\* The last request was a PUT /api/user/language.
LanguagePut == lastSettings.op = "language"
\* C30: PUT /api/user/language with 'en' or 'ja', answered 200, leaves a row
\* with that language and every other settings column as before (null where
\* there was no row); a failing store leaves the row as it was; with any
\* other language, or none, it answers 400 and writes nothing.
C30_LanguageOnlyUpdate ==
    LanguagePut =>
        IF lastSettings.language \in {Str(<<"en">>), Str(<<"ja">>)}
        THEN /\ lastSettings.res.status \in {200, 500}
             /\ lastSettings.res.status = 500
                => user_settings[lastSettings.user] = lastSettings.before
             /\ lastSettings.res.status = 200
                => /\ user_settings[lastSettings.user].present
                   /\ user_settings[lastSettings.user].cols["language"]
                          = lastSettings.language
                   /\ \A key \in SettingsKeys \ {"language"} :
                        user_settings[lastSettings.user].cols[ColumnOf(key)]
                            = lastSettings.before.cols[ColumnOf(key)]
        ELSE RefusedUnwritten

\* C30 witness: a row with max_level 5 and language 'ja' was given the
\* language 'en' and kept max_level 5.
C30_Witness ==
    /\ LanguagePut /\ lastSettings.res.status = 200
    /\ lastSettings.language = Str(<<"en">>)
    /\ lastSettings.before.present
    /\ lastSettings.before.cols["language"] = Str(<<"ja">>)
    /\ lastSettings.before.cols["max_level"] = Num(5)
    /\ user_settings[lastSettings.user].cols["language"] = Str(<<"en">>)
    /\ user_settings[lastSettings.user].cols["max_level"] = Num(5)

\* ------------------------------------------------------ response properties
\* The responses sent so far that the state still holds.
Responses ==
    {req[r].res : r \in {p \in Procs : Done(p)}}
        \cup (IF last.op # "none"
              THEN {[status |-> last.res.status, success |-> last.res.success,
                     error |-> last.res.error]}
              ELSE {})
        \cup (IF lastSettings.op # "none"
              THEN {[status |-> lastSettings.res.status,
                     success |-> lastSettings.res.success,
                     error |-> lastSettings.res.error]}
              ELSE {})

\* C24: every response has a success key holding a boolean, and every
\* response that is no 200 has success = false, an error message, and the
\* status 400, 401 or 500.
C24_ResponsesCarrySuccess ==
    \A res \in Responses :
        /\ res.success \in {"true", "false"}
        /\ res.status # 200
           => /\ res.success = "false"
              /\ res.error # ""
              /\ res.status \in {400, 401, 500}

\* ------------------------------------------------------ reading progress
\* The keys a table holds a row for.
KeysOf(table) == {k \in DOMAIN table : table[k].present}

\* C25: GET /api/progress answers 200 with exactly the rows of the caller
\* (each of them, with its columns, and no row of another user; none when the
\* caller has none) unless the store read fails, and then 500; it leaves the
\* table as it was; and no progress request removes a key from the table.
C25_GetReturnsOwnRowsAndNothingDeleted ==
    /\ last.op = "get"
       => /\ user_kanji_progress = last.before
          /\ last.res.status = IF last.fault THEN 500 ELSE 200
          /\ last.res.status = 200
             => /\ \A k \in KeysOf(user_kanji_progress) :
                      k[1] = last.user
                      => \E rec \in last.progress :
                            /\ rec.user_id = k[1]
                            /\ rec.kanji_id = k[2]
                            /\ rec.cols = user_kanji_progress[k].cols
                /\ \A rec \in last.progress :
                      /\ rec.user_id = last.user
                      /\ <<rec.user_id, rec.kanji_id>> \in KeysOf(user_kanji_progress)
                      /\ rec.cols = user_kanji_progress[<<rec.user_id, rec.kanji_id>>].cols
    /\ last.op # "none" => KeysOf(last.before) \subseteq KeysOf(user_kanji_progress)

\* A user with two rows reads them while another user has a row too.
C25_Witness ==
    /\ last.op = "get"
    /\ last.res.status = 200
    /\ Cardinality(last.progress) = 2
    /\ \E k \in KeysOf(user_kanji_progress) : k[1] # last.user

\* ------------------------------------------------------ concurrent updates
\* What a streak update with the today and the yesterday of request p leaves
\* in the table when it runs alone on row: lines 548-583 without interruption.
Alone(row, p) ==
    IF AlreadyReviewed(row, req[p].today)
    THEN row
    ELSE StreakData(NewStreak(row, req[p].today, req[p].yesterdayStr), req[p].today)

\* C26: when exactly two streak updates of one user have run, the second
\* begun while the first was in flight, and the store has served each of
\* their calls, the stored row is what one of the two serial orders of the
\* two updates leaves, starting from the row stored when the first began.
C26_ConcurrentUpdatesSerialize ==
    \A r \in Procs, q \in Procs :
        ( /\ r < q
          /\ nreq = 2
          /\ Served(r) /\ Served(q)
          /\ req[r].user = req[q].user )
        => user_streaks[req[r].user] \in
              { Alone(Alone(req[r].start, r), q), Alone(Alone(req[r].start, q), r) }

\* ------------------------------------------------------------ custom words
\* C27: a user never holds more than 3 custom words for one kanji, and a
\* POST /api/custom-words whose count query answered 3 or more is answered
\* 400, whatever the interleaving of the count queries and the inserts of
\* concurrent requests.
C27_AtMostThreeWords ==
    /\ \A u \in Users, w \in user_custom_words.rows :
          Cardinality(Matching(user_custom_words.rows, u, w.kanji_id)) <= MaxCustomWords
    /\ \A r \in Procs :
          wreq[r].pc = "done" /\ wreq[r].count >= MaxCustomWords
          => wreq[r].res.status = 400

\* ------------------------------------------------------ isolation of users
\* The rows of a user in the four tables.
RowsOf(user) ==
    <<user_streaks[user], user_settings[user],
      {<<k, user_kanji_progress[k]>> :
          k \in {x \in DOMAIN user_kanji_progress : x[1] = user}},
      {w \in user_custom_words.rows : w.user_id = user}>>
\* The user the identity service returned for the token of the request that
\* authenticateUser saw last.
IdentityOf(auth) ==
    IF auth.op = "auth" /\ auth.header.present /\ auth.identity = "answers"
    THEN TokenUser(auth.header.token)
    ELSE "none"
\* The step starts the handler of the request authenticateUser let through.
Starts == nreq' = nreq + 1 /\ lastAuth' = lastAuth
\* The step is a later store call of a request of the user.
Continues(user) ==
    \E r \in Procs :
        \/ /\ req'[r] # req[r]
           /\ req[r].pc \in {"select", "upsert"}
           /\ req[r].user = user
        \/ /\ wreq'[r] # wreq[r]
           /\ wreq[r].pc \in {"count", "insert"}
           /\ wreq[r].user = user

\* C28: a step changes (creates, alters or removes) rows of user B only when
\* it is a step of a request whose token the identity service resolved to B;
\* a user_id in the body changes nothing, and a request that spans several
\* store calls keeps the user of its token.
C28_WritesKeyedByIdentity ==
    [][ /\ \A r \in Procs :
              /\ req'[r].pc = "select" /\ req[r].pc # "select"
                 => req'[r].user = IdentityOf(lastAuth)
              /\ wreq'[r].pc = "count" /\ wreq[r].pc # "count"
                 => wreq'[r].user = IdentityOf(lastAuth)
        /\ \A b \in Users :
              RowsOf(b)' # RowsOf(b)
              => \/ Starts /\ IdentityOf(lastAuth) = b
                 \/ Continues(b) ]_vars

\* A user asked to delete a word of another user, with the store serving the
\* call, and the word is still there.
C28_Witness ==
    /\ lastWord.op = "delete"
    /\ lastWord.res.status = 200
    /\ \E w \in lastWord.before :
          /\ w.id = lastWord.wordId
          /\ w.user_id # lastWord.user
          /\ w \in user_custom_words.rows

\* ---------------------------------------------------------- authentication
\* The request carries no credential: no Authorization header, or one whose
\* token is empty.
Missing(auth) == ~auth.header.present \/ auth.header.token = ""
\* The identity service was asked and did not accept the credential.
Rejected(auth) ==
    /\ ~Missing(auth)
    /\ auth.identity # "throws"
    /\ auth.identity = "fails" \/ TokenUser(auth.header.token) = "none"

\* C29: a request whose credential is missing or rejected is answered 401 by
\* authenticateUser without any table read, the step that answers it leaves
\* every table and every handler's state as they were, and a handler starts
\* only for a request whose credential the identity service accepted.
C29_UnauthenticatedAnswered401 ==
    [][ /\ ( /\ lastAuth' # lastAuth
             /\ Missing(lastAuth') \/ Rejected(lastAuth') )
           => /\ lastAuth'.verdict.res.status = 401
              /\ ~lastAuth'.verdict.next
              /\ lastAuth'.verdict.reads = 0
              /\ UNCHANGED <<clock, streakVars, progressVars, settingsVars, wordVars>>
        /\ Starts => IdentityOf(lastAuth) \in Users ]_vars

\* A request with a token the identity service does not accept was answered
\* 401 after a request of a signed-in user was handled.
C29_Witness ==
    /\ lastAuth.op = "auth"
    /\ lastAuth.header = Header(TRUE, "expired")
    /\ lastAuth.verdict.res.status = 401
    /\ lastAuth.n > 0

====
